---- MODULE Spec2Model ----
(***************************************************************************)
(* Cart-to-sale subsystem of the commerce backend (src/index.js).          *)
(*                                                                         *)
(* The store is a PostgreSQL database used at its default isolation level  *)
(* (READ COMMITTED): every statement sees the rows committed when it runs, *)
(* plus the writes of its own transaction; the writes of a transaction     *)
(* become visible to the others at COMMIT; serial ids come from sequences, *)
(* which are not rolled back.  Every request handler is an async function: *)
(* its awaited statements are steps, and the steps of the requests in      *)
(* flight interleave freely.  pool.connect and BEGIN touch no row, so they *)
(* are taken together with the handler's first statement, and a response   *)
(* is taken together with the last awaited statement before it.            *)
(* The schema is not part of the source: the only row lock modelled is the *)
(* one the checkout's SELECT ... FOR UPDATE takes on the cart's row.       *)
(*                                                                         *)
(* Money is counted in whole units, so price * quantity and the sum of the *)
(* line totals are exact.                                                  *)
(***************************************************************************)
EXTENDS Integers, FiniteSets, Sequences, TLC

\* ------------------------------------------------------------- bounds
MaxCarts      == 2      \* cart ids drawn from the sequence in one behaviour
MaxItems      == 2      \* cart_item ids drawn in one behaviour
MaxSales      == 2      \* sale ids drawn in one behaviour
ReuseMaxItems == 3      \* cart_item ids drawn in one behaviour of SpecReuse
SmallCarts    == 1      \* cart ids drawn in one behaviour of the small scenarios
SmallItems    == 1      \* cart_item ids drawn in one behaviour of the same
MaxClock      == 2      \* readings of the database clock
PoolMax       == 2      \* clients of the connection pool
MaxUsers      == 5      \* user ids drawn in one behaviour

Req        == {1, 2}           \* requests handled at the same time
Users      == {1, 2}           \* registered users
OneUser    == {1}

\* req.body of POST /register.  An email is the sequence of its characters;
\* "" and << >> are a field that is missing or empty.
Mail(name) == <<name, "@", "x", ".", "y">>
Usernames == {"", "ann", "cat", "dan"}
Emails    == {<< >>, Mail("a"), Mail("c"), Mail("d"), <<"c", ".", "y">>}
Passwords == {"", "pw"}

\* The rows of table users when the server starts: the users who send the
\* cart requests.
RegisteredUsers ==
  (1 :> [username |-> "ann", email |-> Mail("a")]) @@
  (2 :> [username |-> "bob", email |-> Mail("b")])
Catalog    == {1}              \* product ids present in table products
ProductIds == {1, 2}           \* product ids a request may send (2: unknown)
Prices     == {1, 2}           \* catalog prices

\* A value of a request body or of a URL: its JavaScript type and the characters
\* of String(value), which is what parseInt reads.
Undefined == [type |-> "undefined", chars |-> << >>]
Num(cs)   == [type |-> "number", chars |-> cs]
Str(cs)   == [type |-> "string", chars |-> cs]

QtyInputs  == {Num(<<"0">>), Num(<<"1">>), Num(<<"2">>)}   \* quantities sent
UnitQty    == {Num(<<"0">>), Num(<<"1">>)}
\* quantity absent, 'a', '2a', '1', 1.5, -1, 0, 1, 2
\* :user_id in a URL: '1', '2', 'a'
UserIdParams == {Str(<<"1">>), Str(<<"2">>), Str(<<"a">>)}
BodyQuantities ==
  {Undefined, Str(<<"a">>), Str(<<"2", "a">>), Str(<<"1">>),
   Num(<<"1", ".", "5">>), Num(<<"-", "1">>)} \cup QtyInputs

VARIABLES
  users,       \* table users: user_id -> [username, email]
  userSeq,     \* next value of users.user_id's sequence
  reg,         \* the register requests in flight: slot -> locals and position
  unreleased,  \* the pool's clients that were taken by a handler that has ended
               \* and were not given back
  clock,       \* the database clock: what NOW() gives a transaction that begins
  price,       \* table products: product_id -> price
  carts,       \* table carts (committed rows): cart_id -> [user_id, status]
  cart_items,  \* table cart_items (committed rows): cart_item_id -> row
  sales,       \* table sales (committed rows): sale_id -> row
  cartSeq,     \* next value of carts.cart_id's sequence
  itemSeq,     \* next value of cart_items.cart_item_id's sequence
  saleSeq,     \* next value of sales.sale_id's sequence
  req,         \* the requests in flight: slot -> handler locals and position
  priced,      \* history: cart_item_id -> unit price its add call looked up
  sold,        \* history: sale_id -> the caller and cart of its checkout, and
               \*          the lines that checkout read under the lock
  fresh        \* history: user -> the user's last committed cart operation
               \*          is a checkout (no add_to_cart has succeeded since)

vars == <<users, userSeq, reg, unreleased, clock, price, carts, cart_items, sales, cartSeq, itemSeq, saleSeq, req,
          priced, sold, fresh>>

db    == <<carts, cart_items, sales>>
seqs  == <<cartSeq, itemSeq, saleSeq>>
hist  == <<priced, sold, fresh>>
accounts == <<users, userSeq, reg>>

\* ------------------------------------------------------------- helpers
Empty == << >>    \* the function with the empty domain: a table with no row

RECURSIVE SumTotals(_)
SumTotals(S) ==
  IF S = {} THEN 0
  ELSE LET i == CHOOSE x \in S : TRUE
       IN  cart_items[i].total_price + SumTotals(S \ {i})

\* parseInt(value, 10): an optional sign, then the leading decimal digits; NaN
\* when there is none.
NaN       == [nan |-> TRUE, val |-> 0]
Parsed(n) == [nan |-> FALSE, val |-> n]

DigitValue == ("0" :> 0) @@ ("1" :> 1) @@ ("2" :> 2) @@ ("5" :> 5)

RECURSIVE LeadingDigits(_)
LeadingDigits(cs) ==
  IF cs = << >> \/ Head(cs) \notin DOMAIN DigitValue THEN << >>
  ELSE <<Head(cs)>> \o LeadingDigits(Tail(cs))

RECURSIVE DecimalValue(_)
DecimalValue(ds) ==
  IF ds = << >> THEN 0
  ELSE 10 * DecimalValue(SubSeq(ds, 1, Len(ds) - 1)) + DigitValue[ds[Len(ds)]]

parseInt(value) ==
  LET cs  == value.chars
      neg == cs # << >> /\ Head(cs) = "-"
      ds  == LeadingDigits(IF neg THEN Tail(cs) ELSE cs)
  IN  IF ds = << >> THEN NaN
      ELSE Parsed(IF neg THEN 0 - DecimalValue(ds) ELSE DecimalValue(ds))

\* Validate Input: quantity === undefined, isNaN(parsedQuantity),
\* parsedQuantity < 1 (400).
QuantityRejected(quantity) ==
  \/ quantity = Undefined
  \/ parseInt(quantity).nan
  \/ parseInt(quantity).val < 1

\* Locals of a handler that is not running.
Idle == [op |-> "none", pc |-> "idle", user |-> 0, cart_id |-> 0, product |-> 0,
         rawQuantity |-> Undefined, quantity |-> 0, created |-> FALSE, productPrice |-> 0, total_price |-> 0,
         item |-> 0,
         rows |-> {}, lock |-> 0, sale_id |-> 0, totalAmount |-> 0,
         statusUpd |-> FALSE, outcome |-> 0, ownActive |-> FALSE,
         isNext |-> FALSE, now |-> 0]

\* No register request in the slot.
RegIdle == [pc |-> "idle", username |-> "", email |-> << >>, outcome |-> 0]

\* A request takes the lowest free slot.
Free(r) == req[r].pc = "idle" /\ \A q \in Req : q < r => req[q].pc # "idle"

\* pool.connect() and pool.query() get a client at once when the pool has one
\* that is not in use: a handler in flight has one, and so has a handler that
\* ended without client.release().
ClientsInUse == unreleased + Cardinality({q \in Req : req[q].pc # "idle"})
ClientFree == ClientsInUse < PoolMax

At(r, o, p) == req[r].op = o /\ req[r].pc = p

\* A statement has been answered and the handler has nothing left to do but
\* ROLLBACK and send `status`; a row lock is held until the ROLLBACK.
Abort(rec, status) ==
  [Idle EXCEPT !.op = rec.op, !.pc = "rollback", !.user = rec.user,
               !.cart_id = rec.cart_id, !.item = rec.item, !.lock = rec.lock,
               !.sale_id = rec.sale_id, !.ownActive = rec.ownActive,
               !.outcome = status]

\* ------------------------------------------------------------- queries
\* SELECT cart_id FROM carts WHERE user_id = $1 AND status = 'active'
CartsOfUser(u) == {c \in DOMAIN carts : carts[c].user_id = u}
ActiveCartsOf(u) ==
  {c \in DOMAIN carts : carts[c].user_id = u /\ carts[c].status = "active"}

\* price * parsedQuantity
LineTotalNoQty(productPrice, parsedQuantity) == productPrice
LineTotal(productPrice, parsedQuantity) == productPrice * parsedQuantity

\* SELECT ... FROM carts c JOIN cart_items ci ... WHERE c.cart_id = $1 AND
\* c.status = 'active': the cart_item_ids of the joined rows.
CheckoutRows(c) ==
  {i \in DOMAIN cart_items :
     /\ cart_items[i].cart_id = c
     /\ c \in DOMAIN carts
     /\ carts[c].status = "active"}

\* cartResult.rows.length === 0
CartMissingOrClosed(c, rows) ==
  c \notin DOMAIN carts \/ carts[c].status # "active"
CartNotFound(c, rows) == rows = {}

\* FOR UPDATE: the cart's row is locked by another open transaction.
NeverLocked(r, c) == FALSE
RowLockedByOther(r, c) == \E q \in Req \ {r} : req[q].lock = c

\* cart.user_id !== user_id
NoOwnerCheck(u, c) == FALSE
NotOwner(u, c) == carts[c].user_id # u

\* cart.items.reduce((sum, item) => sum + parseFloat(item.total_price), 0)
TotalAtCatalogPrice(rows) ==
  LET RECURSIVE Add(_)
      Add(S) == IF S = {} THEN 0
                ELSE LET i == CHOOSE x \in S : TRUE
                     IN  price[cart_items[i].product_id] * cart_items[i].quantity
                           + Add(S \ {i})
  IN  Add(rows)
TotalOfDistinct(rows) ==
  LET RECURSIVE Add(_)
      Add(V) == IF V = {} THEN 0
                ELSE LET v == CHOOSE x \in V : TRUE IN v + Add(V \ {v})
  IN  Add({cart_items[i].total_price : i \in rows})
totalAmount(rows) == SumTotals(rows)

\* GET /cart/:cart_id: cart_items JOIN carts JOIN users JOIN products
\* WHERE c.cart_id = $1 AND c.user_id = $2
GetCartRowsAnyUser(c, u) ==
  {i \in DOMAIN cart_items : cart_items[i].cart_id = c /\ c \in DOMAIN carts}
GetCartRows(c, u) ==
  {i \in DOMAIN cart_items :
     /\ cart_items[i].cart_id = c
     /\ c \in DOMAIN carts
     /\ carts[c].user_id = u
     /\ cart_items[i].product_id \in DOMAIN price}

\* COMMIT of a checkout: the rows of table carts afterwards.
CartsDeleted(rec) ==
  [c \in DOMAIN carts \ {rec.cart_id} |-> carts[c]]
CartsStatusLost(rec) == carts
CartsAfterCheckout(rec) ==
  IF rec.statusUpd
    THEN [carts EXCEPT ![rec.cart_id].status = "checked_out"]
    ELSE carts

\* COMMIT of a checkout: the rows of table sales afterwards.
SalesAfterCheckout(rec) ==
  IF rec.sale_id # 0
    THEN sales @@ (rec.sale_id :>
                     [user_id |-> rec.user, cart_id |-> rec.cart_id,
                      total_price |-> rec.totalAmount, sale_date |-> rec.now])
    ELSE sales

\* COMMIT of a checkout: the rows of table cart_items afterwards.  The handler
\* has no statement on cart_items ("Removed deletion of cart items and cart").
ItemsDeletedAtCheckout(rec) ==
  [i \in {j \in DOMAIN cart_items : cart_items[j].cart_id # rec.cart_id} |->
     cart_items[i]]
ItemsAfterCheckout(rec) == cart_items

\* COMMIT of an add: the rows of table cart_items afterwards.  The one
\* statement on the table is INSERT INTO cart_items ... RETURNING cart_item_id.
ItemsMerged(rec) ==
  LET same == {i \in DOMAIN cart_items :
                 /\ cart_items[i].cart_id = rec.cart_id
                 /\ cart_items[i].product_id = rec.product}
  IN  IF same = {}
        THEN cart_items @@ (rec.item :>
               [cart_id |-> rec.cart_id, product_id |-> rec.product,
                quantity |-> rec.quantity, total_price |-> rec.total_price])
        ELSE LET i == CHOOSE j \in same : TRUE
             IN  [cart_items EXCEPT
                    ![i].quantity = @ + rec.quantity,
                    ![i].total_price = @ + rec.total_price]
ItemsAfterAdd(rec) ==
  cart_items @@ (rec.item :>
    [cart_id |-> rec.cart_id, product_id |-> rec.product,
     quantity |-> rec.quantity, total_price |-> rec.total_price])

\* ------------------------------------------------------------- Init
Init ==
  /\ users = RegisteredUsers
  /\ userSeq = 3
  /\ reg = [r \in Req |-> RegIdle]
  /\ unreleased = 0
  /\ clock = 1
  /\ price \in [Catalog -> Prices]
  /\ carts = Empty
  /\ cart_items = Empty
  /\ sales = Empty
  /\ cartSeq = 1
  /\ itemSeq = 1
  /\ saleSeq = 1
  /\ req = [r \in Req |-> Idle]
  /\ priced = Empty
  /\ sold = Empty
  /\ fresh = [u \in Users |-> FALSE]

\* The same, with a cart that has no line: a row of table carts that no handler
\* inserted (POST /cart commits a cart together with its first line).
InitSeeded ==
  /\ users = RegisteredUsers
  /\ userSeq = 3
  /\ reg = [r \in Req |-> RegIdle]
  /\ unreleased = 0
  /\ clock = 1
  /\ price \in [Catalog -> Prices]
  /\ carts = (1 :> [user_id |-> 1, status |-> "active"])
  /\ cart_items = Empty
  /\ sales = Empty
  /\ cartSeq = 2
  /\ itemSeq = 1
  /\ saleSeq = 1
  /\ req = [r \in Req |-> Idle]
  /\ priced = Empty
  /\ sold = Empty
  /\ fresh = [u \in Users |-> FALSE]

\* ------------------------------------------------------------- catalog
\* The catalog is maintained outside these handlers: a product's price changes.
ChangePrice(p, v) ==
  /\ p \in DOMAIN price
  /\ v # price[p]
  /\ price' = [price EXCEPT ![p] = v]
  /\ UNCHANGED <<accounts, unreleased, clock, db, seqs, req, hist>>

\* Time passes: a transaction that begins later reads a later NOW().
Tick ==
  /\ clock < MaxClock
  /\ clock' = clock + 1
  /\ UNCHANGED <<accounts, unreleased, price, db, seqs, req, hist>>

\* ------------------------------------------------------------- POST /cart
\* Input validation (400), BEGIN, Check for Existing Active Cart (LIMIT 1 with
\* no ORDER BY: any of the user's active carts).
AddToCart_SelectCart(r, u, p, q) ==
  /\ Free(r)
  /\ ClientFree
  /\ LET rec == [Idle EXCEPT !.op = "add", !.user = u, !.product = p,
                             !.rawQuantity = q, !.quantity = parseInt(q).val,
                             !.isNext = fresh[u]]
     IN  IF QuantityRejected(q)
           THEN UNCHANGED req      \* 400, client.release
           ELSE IF ActiveCartsOf(u) # {}
             THEN \E c \in ActiveCartsOf(u) :
                    req' = [req EXCEPT ![r] =
                              [rec EXCEPT !.cart_id = c, !.pc = "selectPrice"]]
             ELSE req' = [req EXCEPT ![r] = [rec EXCEPT !.pc = "createCart"]]
  /\ UNCHANGED <<accounts, unreleased, clock, price, db, seqs, hist>>

\* INSERT INTO carts (user_id) RETURNING cart_id; status takes the column's
\* default, 'active'.  The row is not visible to the others before COMMIT.
AddToCart_CreateCart(r) ==
  /\ At(r, "add", "createCart")
  /\ req' = [req EXCEPT ![r].cart_id = cartSeq, ![r].created = TRUE,
                        ![r].pc = "selectPrice"]
  /\ cartSeq' = cartSeq + 1
  /\ UNCHANGED <<accounts, unreleased, clock, price, db, itemSeq, saleSeq, hist>>

\* ------------------------------------------------------------- POST /cart/:cart_id
\* Input validation (400), BEGIN, Check if the cart belongs to the user and is
\* active; no row: ROLLBACK, 404.
AddToSpecificCart_CheckCart(r, u, c, p, q) ==
  /\ Free(r)
  /\ ClientFree
  /\ LET rec == [Idle EXCEPT !.op = "addTo", !.user = u, !.cart_id = c,
                             !.product = p, !.rawQuantity = q,
                             !.quantity = parseInt(q).val]
     IN  req' = [req EXCEPT ![r] =
           IF QuantityRejected(q) THEN Idle      \* 400, client.release
           ELSE IF c \in ActiveCartsOf(u) THEN [rec EXCEPT !.pc = "selectPrice"]
           ELSE Abort(rec, 404)]
  /\ UNCHANGED <<accounts, unreleased, clock, price, db, seqs, hist>>

\* ------------------------------------------------------------- both add handlers
IsAdd(r) == req[r].op \in {"add", "addTo"}

\* SELECT price FROM products, and total_price = productPrice * parsedQuantity;
\* no row: throw, caught: ROLLBACK, 500.
Add_SelectPrice(r) ==
  /\ IsAdd(r)
  /\ req[r].pc = "selectPrice"
  /\ req' = [req EXCEPT ![r] =
       IF req[r].product \in DOMAIN price
         THEN [req[r] EXCEPT !.productPrice = price[req[r].product],
                 !.total_price = LineTotal(price[req[r].product], req[r].quantity),
                 !.pc = "insertItem"]
         ELSE Abort(req[r], 500)]
  /\ UNCHANGED <<accounts, unreleased, clock, price, db, seqs, hist>>

\* INSERT INTO cart_items ... RETURNING cart_item_id (not visible before COMMIT).
Add_InsertItem(r) ==
  /\ IsAdd(r)
  /\ req[r].pc = "insertItem"
  /\ req' = [req EXCEPT ![r].item = itemSeq, ![r].pc = "commit"]
  /\ itemSeq' = itemSeq + 1
  /\ UNCHANGED <<accounts, unreleased, clock, price, db, cartSeq, saleSeq, hist>>

\* COMMIT: the new cart (if one was created) and the new line become visible.
\* What is left is the detail query (Fetch Detailed Information) and the 201.
Add_Commit(r) ==
  /\ IsAdd(r)
  /\ req[r].pc = "commit"
  /\ carts' = IF req[r].created
                THEN carts @@ (req[r].cart_id :>
                                 [user_id |-> req[r].user, status |-> "active"])
                ELSE carts
  /\ cart_items' = ItemsAfterAdd(req[r])
  /\ priced' = priced @@ (req[r].item :> req[r].productPrice)
  /\ req' = [req EXCEPT ![r] =
       [Idle EXCEPT !.op = req[r].op, !.pc = "respond", !.user = req[r].user,
          !.cart_id = req[r].cart_id, !.created = req[r].created,
          !.item = req[r].item, !.outcome = 201,
          !.isNext = req[r].isNext /\ fresh[req[r].user]]]
  /\ fresh' = IF req[r].op = "add"
                THEN [fresh EXCEPT ![req[r].user] = FALSE] ELSE fresh
  /\ UNCHANGED <<accounts, unreleased, clock, price, sales, seqs, sold>>

\* catch / not-found branch: ROLLBACK, the response, client.release.
RollbackKeepsCart(r) ==
  /\ IsAdd(r)
  /\ req[r].pc = "rollback"
  /\ req' = [req EXCEPT ![r] = Idle]
  /\ carts' = IF req[r].cart_id \in 1..(cartSeq - 1) \ DOMAIN carts
                THEN carts @@ (req[r].cart_id :>
                                 [user_id |-> req[r].user, status |-> "active"])
                ELSE carts
  /\ UNCHANGED <<accounts, unreleased, clock, price, cart_items, sales, seqs, hist>>
Add_Rollback(r) ==
  /\ IsAdd(r)
  /\ req[r].pc = "rollback"
  /\ req' = [req EXCEPT ![r] = Idle]
  /\ UNCHANGED <<accounts, unreleased, clock, price, db, seqs, hist>>

\* The detail query, the 201, client.release.
Add_Respond(r) ==
  /\ IsAdd(r)
  /\ req[r].pc = "respond"
  /\ req' = [req EXCEPT ![r] = Idle]
  /\ UNCHANGED <<accounts, unreleased, clock, price, db, seqs, hist>>

\* ------------------------------------------------------------- GET /cart/:cart_id
\* The handler's one query, and the response it sends: no row, 404 'Cart not
\* found or access denied.'; else 200 with the rows.
GetCartResponse(c, u) ==
  LET rows == GetCartRows(c, u)
  IN  [status |-> IF rows = {} THEN 404 ELSE 200, cart_items |-> rows]

\* The handler reads and writes nothing else.
GetCart(r, u, c) ==
  /\ Free(r)
  /\ ClientFree
  /\ GetCartResponse(c, u).status \in {200, 404}
  /\ UNCHANGED vars

\* ------------------------------------------------------------- POST /register

\* !username || !email || !password
FieldMissing(username, email, password) ==
  username = "" \/ email = << >> \/ password = ""

\* SELECT 1 FROM users WHERE username = $1 OR email = $2
NoExistingUser(username, email) == {}
ExistingUser(username, email) ==
  {u \in DOMAIN users : users[u].username = username \/ users[u].email = email}

\* /^[^\s@]+@[^\s@]+\.[^\s@]+$/ : one "@", with text before it, and after it
\* text, a ".", text; no blank.
emailRegexTest(email) ==
  \E i \in 2..Len(email) :
    /\ email[i] = "@"
    /\ \A k \in (1..Len(email)) \ {i} : email[k] \notin {"@", " "}
    /\ \E j \in (i + 2)..(Len(email) - 1) : email[j] = "."

\* users.username and users.email are unique: an INSERT of a username or an
\* email that a row has fails.
UniqueViolation(username, email) ==
  \E u \in DOMAIN users :
    users[u].username = username \/ users[u].email = email

\* The handler up to the hashing of the password: the required fields, the
\* existence check, the email's format.  A 400 ends it.
Register_Check(r, username, email, password) ==
  /\ reg[r].pc = "idle"
  /\ \A q \in Req : q < r => reg[q].pc # "idle"
  /\ ClientFree
  /\ reg' = [reg EXCEPT ![r] =
       IF \/ FieldMissing(username, email, password)
          \/ ExistingUser(username, email) # {}
          \/ ~emailRegexTest(email)
         THEN [RegIdle EXCEPT !.pc = "respond", !.username = username,
                              !.email = email, !.outcome = 400]
         ELSE [RegIdle EXCEPT !.pc = "insert", !.username = username,
                              !.email = email]]
  /\ UNCHANGED <<users, userSeq, unreleased, clock, price, db, seqs, req, hist>>

\* INSERT INTO users ... RETURNING user_id: the id is drawn, and the row is
\* stored (201) unless the insert fails (catch: 500).
Register_Insert(r) ==
  /\ reg[r].pc = "insert"
  /\ ClientFree
  /\ userSeq' = userSeq + 1
  /\ IF UniqueViolation(reg[r].username, reg[r].email)
       THEN /\ users' = users
            /\ reg' = [reg EXCEPT ![r].pc = "respond", ![r].outcome = 500]
       ELSE /\ users' = users @@ (userSeq :>
                          [username |-> reg[r].username, email |-> reg[r].email])
            /\ reg' = [reg EXCEPT ![r].pc = "respond", ![r].outcome = 201]
  /\ UNCHANGED <<unreleased, clock, price, db, seqs, req, hist>>

\* res.status(...).json(...)
Register_Respond(r) ==
  /\ reg[r].pc = "respond"
  /\ reg' = [reg EXCEPT ![r] = RegIdle]
  /\ UNCHANGED <<users, userSeq, unreleased, clock, price, db, seqs, req, hist>>

\* ------------------------------------------------------------- GET /user/:user_id
\* A column that a LEFT JOIN found no row for.
Null == 0

\* requestedUserId !== req.user.user_id
AnyRequester(requestedUserId, user_id) == FALSE
NotSelf(requestedUserId, user_id) == requestedUserId # user_id

\* What a handler sends when it sends no data.
NoData(status) == [status |-> status, sales |-> << >>, cart |-> {}]

SalesOfUser(u) == {s \in DOMAIN sales : sales[s].user_id = u}

\* The orders in which a query may return the rows S.
Orderings(S) ==
  {seq \in [1..Cardinality(S) -> S] :
     \A i, j \in 1..Cardinality(S) : i # j => seq[i] # seq[j]}

\* ORDER BY type, sale_date DESC: the rows of type 'sale' follow those of type
\* 'cart', latest sale_date first; rows with the same sale_date come in any
\* order.
ProfileSaleOrders(u) ==
  {seq \in Orderings(SalesOfUser(u)) :
     \A i, j \in DOMAIN seq :
       i < j => sales[seq[i]].sale_date >= sales[seq[j]].sale_date}

\* user.sales: one entry per row of type 'sale', in the order of the rows; the
\* sale's columns it carries are sale_date and total_price.  users LEFT JOIN
\* sales gives a user without a sale one row, whose sale columns are null.
ProfileSales(seq) ==
  IF seq = << >>
    THEN <<[sale_date |-> Null, total_price |-> Null]>>
    ELSE [i \in DOMAIN seq |->
            [sale_date |-> sales[seq[i]].sale_date,
             total_price |-> sales[seq[i]].total_price]]

\* user.cart: the rows of type 'cart', the lines of the user's active carts
\* (they all have a null sale_date: their order is not determined).
ProfileCartRows(u) ==
  {i \in DOMAIN cart_items :
     /\ cart_items[i].cart_id \in ActiveCartsOf(u)
     /\ cart_items[i].product_id \in DOMAIN price}

\* The responses the handler may send to user_id (the session's user) asking
\* for /user/param.
ProfileResponses(param, user_id) ==
  LET requestedUserId == parseInt(param)
  IN  IF requestedUserId.nan THEN {NoData(400)}
      ELSE IF NotSelf(requestedUserId.val, user_id) THEN {NoData(403)}
      ELSE {[status |-> 200, sales |-> ProfileSales(seq),
             cart |-> ProfileCartRows(requestedUserId.val)] :
              seq \in ProfileSaleOrders(requestedUserId.val)}

\* The handler reads with one statement and writes nothing.
GetProfile(r, u, param) ==
  /\ Free(r)
  /\ ClientFree
  /\ ProfileResponses(param, u) # {}
  /\ UNCHANGED vars

\* ------------------------------------------------------------- GET /sales/:user_id
\* ORDER BY s.sale_date DESC, s.sale_id DESC
SalesListOrder(u) ==
  CHOOSE seq \in Orderings(SalesOfUser(u)) :
    \A i, j \in DOMAIN seq :
      i < j => \/ sales[seq[i]].sale_date > sales[seq[j]].sale_date
               \/ /\ sales[seq[i]].sale_date = sales[seq[j]].sale_date
                  /\ seq[i] > seq[j]

\* saleItemsQuery: the lines of the sale's cart.
SaleItems(s) ==
  {i \in DOMAIN cart_items :
     /\ cart_items[i].cart_id = sales[s].cart_id
     /\ cart_items[i].product_id \in DOMAIN price}

\* The response to user_id asking for /sales/param; sales is empty both in a
\* refusal and in 'No sales found for this user.'
SalesResponse(param, user_id) ==
  LET requestedUserId == parseInt(param)
  IN  IF requestedUserId.nan THEN NoData(400)
      ELSE IF NotSelf(requestedUserId.val, user_id) THEN NoData(403)
      ELSE LET seq == SalesListOrder(requestedUserId.val)
           IN  [status |-> 200,
                sales |-> [i \in DOMAIN seq |->
                             [sale_id |-> seq[i],
                              sale_date |-> sales[seq[i]].sale_date,
                              total_price |-> sales[seq[i]].total_price,
                              items |-> SaleItems(seq[i])]],
                cart |-> {}]

\* The handler reads and writes nothing else.
GetSales(r, u, param) ==
  /\ Free(r)
  /\ ClientFree
  /\ SalesResponse(param, u).status \in {200, 400, 403}
  /\ UNCHANGED vars

\* ------------------------------------------------------------- POST /cart/:cart_id/checkout
\* The locked rows are mapped to `cart`; then the ownership check (ROLLBACK,
\* 403), or totalAmount.
Locked(rec, rows) ==
  IF NotOwner(rec.user, rec.cart_id)
    THEN Abort([rec EXCEPT !.lock = rec.cart_id], 403)
    ELSE [rec EXCEPT !.rows = rows, !.lock = rec.cart_id,
                     !.totalAmount = totalAmount(rows), !.pc = "insertSale"]

\* BEGIN (NOW() is the clock's reading from here to the end of the transaction);
\* SELECT ... FOR UPDATE starts: it finds its rows in the committed state.  No row: ROLLBACK, 404.  The cart's row is locked by another
\* transaction: wait.
Checkout_LockedRead(r, u, c) ==
  /\ Free(r)
  /\ ClientFree
  /\ LET rows == CheckoutRows(c)
         rec  == [Idle EXCEPT !.op = "checkout", !.user = u, !.cart_id = c,
                              !.now = clock,
                              !.ownActive = (c \in ActiveCartsOf(u) /\ rows # {})]
     IN  req' = [req EXCEPT ![r] =
           IF CartNotFound(c, rows) THEN Abort(rec, 404)
           ELSE IF RowLockedByOther(r, c)
             THEN [rec EXCEPT !.rows = rows, !.pc = "lockWait"]
             ELSE Locked(rec, rows)]
  /\ UNCHANGED <<accounts, unreleased, clock, price, db, seqs, hist>>

\* The lock's holder has ended its transaction.  It updated the cart's row: the
\* WHERE clause is evaluated again on the new row (status = 'active' fails, no
\* row, ROLLBACK, 404).  It did not: the rows found at the start are locked.
Checkout_LockGranted(r) ==
  /\ At(r, "checkout", "lockWait")
  /\ ~RowLockedByOther(r, req[r].cart_id)
  /\ req' = [req EXCEPT ![r] =
       IF carts[req[r].cart_id].status # "active"
         THEN Abort(req[r], 404)
         ELSE Locked(req[r], req[r].rows)]
  /\ UNCHANGED <<accounts, unreleased, clock, price, db, seqs, hist>>

\* INSERT INTO sales ... RETURNING sale_id (not visible before COMMIT).
Checkout_InsertSale(r) ==
  /\ At(r, "checkout", "insertSale")
  /\ req' = [req EXCEPT ![r].sale_id = saleSeq, ![r].pc = "updateStatus"]
  /\ saleSeq' = saleSeq + 1
  /\ UNCHANGED <<accounts, unreleased, clock, price, db, cartSeq, itemSeq, hist>>

\* UPDATE carts SET status = 'checked_out' (not visible before COMMIT).
Checkout_UpdateStatus(r) ==
  /\ At(r, "checkout", "updateStatus")
  /\ req' = [req EXCEPT ![r].statusUpd = TRUE, ![r].pc = "commit"]
  /\ UNCHANGED <<accounts, unreleased, clock, price, db, seqs, hist>>

\* COMMIT: the sale and the status become visible, the lock is released; then
\* 200 'Checkout successful.'  The handler has no client.release(): the pool
\* does not get the client back.
Checkout_Commit(r) ==
  /\ At(r, "checkout", "commit")
  /\ sales' = SalesAfterCheckout(req[r])
  /\ carts' = CartsAfterCheckout(req[r])
  /\ sold' = sold @@ (req[r].sale_id :>
                [user |-> req[r].user, cart_id |-> req[r].cart_id,
                 rows |-> req[r].rows])
  /\ cart_items' = ItemsAfterCheckout(req[r])
  /\ fresh' = [fresh EXCEPT ![req[r].user] = TRUE]
  /\ req' = [req EXCEPT ![r] = Idle]
  /\ unreleased' = unreleased + 1
  /\ UNCHANGED <<accounts, clock, price, seqs, priced>>

\* ROLLBACK (the lock is released) and the response: 404, 403 or 500; no
\* client.release() here either.
RespondsWithoutRollback(r) ==
  /\ At(r, "checkout", "rollback")
  /\ req' = [req EXCEPT ![r] =
       IF req[r].outcome = 403 THEN [Idle EXCEPT !.lock = req[r].lock]
                               ELSE Idle]
  /\ unreleased' = unreleased + 1
  /\ UNCHANGED <<accounts, clock, price, db, seqs, hist>>
Checkout_Rollback(r) ==
  /\ At(r, "checkout", "rollback")
  /\ req' = [req EXCEPT ![r] = Idle]
  /\ unreleased' = unreleased + 1
  /\ UNCHANGED <<accounts, clock, price, db, seqs, hist>>

\* ------------------------------------------------------------- storage errors
\* A statement of an open transaction (COMMIT included) throws before it has
\* had an effect: the catch block is entered, which does ROLLBACK and answers
\* 500.  The detail query of an add (pc "respond") runs after COMMIT: the
\* ROLLBACK of the catch block finds no transaction to undo.
StorageError(r) ==
  /\ \/ /\ IsAdd(r)
        /\ req[r].pc \in {"createCart", "selectPrice", "insertItem", "commit",
                          "respond"}
     \/ /\ req[r].op = "checkout"
        /\ req[r].pc \in {"lockWait", "insertSale", "updateStatus", "commit"}
  /\ req' = [req EXCEPT ![r] = Abort(req[r], 500)]
  /\ UNCHANGED <<accounts, unreleased, clock, price, db, seqs, hist>>

\* ------------------------------------------------------------- specifications
\* The ids the requests in flight are still to draw from each sequence: the
\* model takes a request only while the ids it may draw are within the bounds.
CartsToDraw == Cardinality({q \in Req : req[q].pc = "createCart"})
ItemsToDraw ==
  Cardinality({q \in Req : req[q].pc \in {"createCart", "selectPrice", "insertItem"}})
SalesToDraw == Cardinality({q \in Req : req[q].pc \in {"lockWait", "insertSale"}})
RoomForCart(u, maxCarts) ==
  ActiveCartsOf(u) = {} => cartSeq + CartsToDraw <= maxCarts
RoomForItem(maxItems) == itemSeq + ItemsToDraw <= maxItems
RoomForSale(maxSales) == saleSeq + SalesToDraw <= maxSales


\* The requests received: users us send quantities qs, and a request that
\* draws ids is received only while the ids drawn stay within the bounds.
Receive(r, us, qs, maxCarts, maxItems, maxSales) ==
  \/ \E u \in us, p \in ProductIds, q \in qs :
       /\ ~QuantityRejected(q) => RoomForItem(maxItems) /\ RoomForCart(u, maxCarts)
       /\ AddToCart_SelectCart(r, u, p, q)
  \/ \E u \in us, c \in 1..cartSeq, p \in ProductIds, q \in qs :
       /\ ~QuantityRejected(q) => RoomForItem(maxItems)
       /\ AddToSpecificCart_CheckCart(r, u, c, p, q)
  \/ \E u \in us, c \in 1..cartSeq : GetCart(r, u, c)
  \/ \E u \in us, param \in UserIdParams : GetProfile(r, u, param)
  \/ \E u \in us, param \in UserIdParams : GetSales(r, u, param)
  \/ \E u \in us, c \in 1..cartSeq :
       /\ RoomForSale(maxSales)
       /\ Checkout_LockedRead(r, u, c)

\* A handler in flight takes its next step.
Proceed(r) ==
  \/ AddToCart_CreateCart(r)
  \/ Add_SelectPrice(r)
  \/ Add_InsertItem(r)
  \/ Add_Commit(r)
  \/ Add_Rollback(r)
  \/ Add_Respond(r)
  \/ Checkout_LockGranted(r)
  \/ Checkout_InsertSale(r)
  \/ Checkout_UpdateStatus(r)
  \/ Checkout_Commit(r)
  \/ Checkout_Rollback(r)

Next ==
  \/ \E p \in Catalog, v \in Prices : ChangePrice(p, v)
  \/ \E r \in Req : Receive(r, Users, UnitQty, MaxCarts, MaxItems, MaxSales)
  \/ \E r \in Req : Proceed(r)

\* Two users, one unit per line.
Spec == Init /\ [][Next]_vars

\* The same, and statements may fail.
NextFault == Next \/ \E r \in Req : StorageError(r)

SpecFault == Init /\ [][NextFault]_vars

\* One user, lines of one or two units.
NextPricing ==
  \/ \E p \in Catalog, v \in Prices : ChangePrice(p, v)
  \/ \E r \in Req : Receive(r, OneUser, QtyInputs, MaxCarts, MaxItems, MaxSales)
  \/ \E r \in Req : Proceed(r)

SpecPricing == Init /\ [][NextPricing]_vars

\* One user, one unit per line, up to three lines.
NextReuse ==
  \/ \E p \in Catalog, v \in Prices : ChangePrice(p, v)
  \/ \E r \in Req :
       Receive(r, OneUser, UnitQty, MaxCarts, ReuseMaxItems, MaxSales)
  \/ \E r \in Req : Proceed(r)

SpecReuse == Init /\ [][NextReuse]_vars

\* Two users, one unit per line, and a cart without a line to begin with.
SpecSeeded == InitSeeded /\ [][Next]_vars

\* One user, one line, every kind of quantity in the request body.
NextValidation ==
  \/ \E p \in Catalog, v \in Prices : ChangePrice(p, v)
  \/ \E r \in Req :
       Receive(r, OneUser, BodyQuantities, SmallCarts, SmallItems, MaxSales)
  \/ \E r \in Req : Proceed(r)

SpecValidation == Init /\ [][NextValidation]_vars

\* One user, lines of one or two units, and time passes.
NextProfile ==
  \/ Tick
  \/ \E r \in Req : Receive(r, OneUser, QtyInputs, MaxCarts, MaxItems, MaxSales)
  \/ \E r \in Req : Proceed(r)

SpecProfile == Init /\ [][NextProfile]_vars

\* Registrations only; a request is received while the ids that the requests
\* in flight may draw are within the bound.
NextRegister ==
  \/ \E r \in Req, username \in Usernames, email \in Emails,
          password \in Passwords :
       /\ userSeq + Cardinality({q \in Req : reg[q].pc = "insert"}) <= MaxUsers
       /\ Register_Check(r, username, email, password)
  \/ \E r \in Req : Register_Insert(r)
  \/ \E r \in Req : Register_Respond(r)

SpecRegister == Init /\ [][NextRegister]_vars

\* Two users, one cart with one line, statements may fail; and the handlers
\* and the database go on.  Node runs every continuation whose awaited
\* statement has been answered, and the database answers every statement that
\* waits for nothing.  A statement that waits for a row lock is queued on the
\* row: it is served when the holder's transaction ends, before any statement
\* that asks for the lock later.
NextLive ==
  \/ \E r \in Req : Receive(r, Users, UnitQty, SmallCarts, SmallItems, MaxSales)
  \/ \E r \in Req : Proceed(r)
  \/ \E r \in Req : StorageError(r)

Fairness ==
  \A r \in Req : WF_vars(Proceed(r)) /\ SF_vars(Checkout_LockGranted(r))

SpecLive == Init /\ [][NextLive]_vars /\ Fairness

\* ------------------------------------------------------------- properties
SalesOf(c) == {s \in DOMAIN sales : sales[s].cart_id = c}
LinesOf(c) == {i \in DOMAIN cart_items : cart_items[i].cart_id = c}

RECURSIVE SumAtPriceRead(_)
SumAtPriceRead(S) ==
  IF S = {} THEN 0
  ELSE LET i == CHOOSE x \in S : TRUE
       IN  priced[i] * cart_items[i].quantity + SumAtPriceRead(S \ {i})

\* C1: in every committed state a user has at most one cart with status
\* active, whatever the interleaving of the add_to_cart calls.
C1_OneActiveCartPerUser ==
  \A u \in Users : Cardinality(ActiveCartsOf(u)) <= 1

\* C2: concurrent checkouts by the owner of an active cart with a line create
\* exactly one Sale for it: a cart never has two Sales, and a checkout that
\* found the cart active, its own and with a line when it was received ends
\* either with its Sale committed or, the loser, with 404 'Active cart not
\* found', the cart then being checked_out with exactly one Sale.
C2_ExactlyOneCheckout ==
  /\ \A c \in DOMAIN carts : Cardinality(SalesOf(c)) <= 1
  /\ \A r \in Req :
       (At(r, "checkout", "rollback") /\ req[r].ownActive) =>
         /\ req[r].outcome = 404
         /\ req[r].sale_id = 0
         /\ carts[req[r].cart_id].status = "checked_out"
         /\ Cardinality(SalesOf(req[r].cart_id)) = 1

\* C2, witness: the loser of two concurrent checkouts of the same cart is about
\* to answer 404.
C2_Witness ==
  \E r \in Req :
    /\ At(r, "checkout", "rollback")
    /\ req[r].ownActive
    /\ req[r].outcome = 404

\* C3: checkout is all-or-nothing, also when statements fail: a cart has a Sale
\* if and only if it is checked_out, and a checkout that is rolling back has
\* left no Sale, and the cart it holds locked is active with no Sale.
C3_AllOrNothing ==
  /\ \A s \in DOMAIN sales : sales[s].cart_id \in DOMAIN carts
  /\ \A c \in DOMAIN carts :
       (SalesOf(c) # {}) <=> (carts[c].status = "checked_out")
  /\ \A r \in Req :
       At(r, "checkout", "rollback") =>
         /\ req[r].sale_id \notin DOMAIN sales
         /\ req[r].lock # 0 =>
              /\ carts[req[r].lock].status = "active"
              /\ SalesOf(req[r].lock) = {}

\* C3, witness: a checkout whose statement failed after its sale insert is
\* rolling back.
C3_Witness ==
  \E r \in Req :
    /\ At(r, "checkout", "rollback")
    /\ req[r].outcome = 500
    /\ req[r].sale_id # 0
    /\ req[r].lock # 0

\* C4: a checkout by a user who does not own the active cart it locked is
\* answered 403, has inserted no Sale and no status change, and the cart is
\* active; no Sale is ever recorded for a user other than the cart's owner.
C4_ForeignCheckoutDenied ==
  /\ \A r \in Req :
       (/\ req[r].op = "checkout"
        /\ req[r].lock # 0
        /\ carts[req[r].lock].user_id # req[r].user) =>
         /\ req[r].pc = "rollback"
         /\ req[r].outcome = 403
         /\ req[r].sale_id = 0
         /\ ~req[r].statusUpd
         /\ carts[req[r].lock].status = "active"
         /\ SalesOf(req[r].lock) = {}
  /\ \A s \in DOMAIN sales :
       sales[s].user_id = carts[sales[s].cart_id].user_id

\* C4, witness: user A's checkout of user B's active cart is about to answer 403.
C4_Witness ==
  \E r \in Req :
    /\ At(r, "checkout", "rollback")
    /\ req[r].outcome = 403
    /\ carts[req[r].cart_id].user_id # req[r].user
    /\ carts[req[r].cart_id].status = "active"

\* C5: in every committed state a Sale's total_price is the sum of the line
\* totals of its source cart (no line enters a checked_out cart).
C5_SaleMirrorsCart ==
  \A s \in DOMAIN sales :
    sales[s].total_price = SumTotals(LinesOf(sales[s].cart_id))

\* C6, as stated: the line inserted has total_price = (the catalog price of its
\* product at the moment of the insertion) x quantity.
C6_PriceAtInsertion ==
  [][\A r \in Req :
       (IsAdd(r) /\ req[r].pc = "insertItem" /\ req'[r].pc = "commit") =>
         req'[r].total_price = price[req[r].product] * req[r].quantity]_vars

\* C6, amended: a line stores total_price = (the catalog price read by its add
\* call's price lookup) x quantity, whatever the catalog price has become
\* since; a checkout's total and its Sale's total are the sum of those stored
\* totals, not of the current catalog prices.
C6_SnapshotPricing ==
  /\ \A i \in DOMAIN cart_items :
       cart_items[i].total_price = priced[i] * cart_items[i].quantity
  /\ \A s \in DOMAIN sales :
       sales[s].total_price = SumAtPriceRead(sold[s].rows)
  /\ \A r \in Req :
       (req[r].op = "checkout" /\ req[r].pc \in {"insertSale", "updateStatus", "commit"}) =>
         req[r].totalAmount = SumAtPriceRead(req[r].rows)

\* C6, witness: a checkout has read, under the lock, a line of two units whose
\* product's catalog price has changed since the line was added.
C6_Witness ==
  \E r \in Req :
    /\ At(r, "checkout", "insertSale")
    /\ \E i \in req[r].rows :
         /\ priced[i] # price[cart_items[i].product_id]
         /\ cart_items[i].quantity = 2

\* C7: a Sale's total_price is the sum of total_price over the lines its
\* checkout read under the lock, which are lines of that cart, and the Sale
\* records the caller's user id and the cart's id.
C7_SaleTotal ==
  \A s \in DOMAIN sales :
    /\ sold[s].rows # {}
    /\ sold[s].rows \subseteq LinesOf(sales[s].cart_id)
    /\ sales[s].total_price = SumTotals(sold[s].rows)
    /\ sales[s].user_id = sold[s].user
    /\ sales[s].cart_id = sold[s].cart_id

\* C7, witness: a Sale made from two lines with the same total.
C7_Witness ==
  \E s \in DOMAIN sales :
    \E i, j \in sold[s].rows :
      i # j /\ cart_items[i].total_price = cart_items[j].total_price

\* C8: no step deletes a cart or changes its owner, and no step takes a
\* checked_out cart to another status.
C8_StatusMonotone ==
  [][\A c \in DOMAIN carts :
       /\ c \in DOMAIN carts'
       /\ carts'[c].user_id = carts[c].user_id
       /\ carts'[c].status \in {"active", "checked_out"}
       /\ carts[c].status = "checked_out" => carts'[c].status = "checked_out"]_vars

\* C8, witness: a checked_out cart, and a later cart of the same user.
C8_Witness ==
  \E c, d \in DOMAIN carts :
    /\ carts[c].status = "checked_out"
    /\ carts[d].user_id = carts[c].user_id
    /\ d > c

\* C9: an add_to_cart received when the user's last committed cart operation
\* was a checkout, and committed before any other add_to_cart of the user, has
\* created a new cart.
C9_NextAddCreatesCart ==
  \A r \in Req :
    (At(r, "add", "respond") /\ req[r].isNext) => req[r].created

\* C10: get_cart answers a cart that does not exist and a cart of another user
\* alike, 404 with no row, and the rows it returns are the lines of a cart of
\* the caller.
C10_GetCartHidesForeign ==
  \A u \in Users, c \in 1..cartSeq :
    LET resp == GetCartResponse(c, u)
    IN  /\ (c \notin DOMAIN carts \/ carts[c].user_id # u) =>
             resp = [status |-> 404, cart_items |-> {}]
        /\ resp.cart_items # {} =>
             /\ resp.status = 200
             /\ c \in DOMAIN carts
             /\ carts[c].user_id = u
             /\ resp.cart_items = LinesOf(c)

\* C10, witness: a cart whose owner is answered 200 with its lines, asked for
\* by the other user.
C10_Witness ==
  \E c \in DOMAIN carts, u \in Users :
    /\ carts[c].user_id # u
    /\ GetCartResponse(c, carts[c].user_id).status = 200
    /\ GetCartResponse(c, u).status = 404

\* C11: an add_to_specific_cart whose cart does not exist, is owned by another
\* user or is checked_out when the handler checks it is answered 404; it draws
\* no line id and creates no cart, and its rollback leaves every table and
\* every sequence as it was.
C11_SpecificCartRequired ==
  [][\A r \in Req :
       /\ (/\ req[r].pc = "idle"
           /\ req'[r].op = "addTo"
           /\ \/ req'[r].cart_id \notin DOMAIN carts
              \/ carts[req'[r].cart_id].user_id # req'[r].user
              \/ carts[req'[r].cart_id].status # "active") =>
            /\ req'[r].pc = "rollback"
            /\ req'[r].outcome = 404
            /\ req'[r].item = 0
            /\ ~req'[r].created
            /\ db' = db
            /\ seqs' = seqs
       /\ (At(r, "addTo", "rollback") /\ req[r].outcome = 404 /\ req'[r] # req[r]) =>
            /\ req'[r] = Idle
            /\ db' = db
            /\ seqs' = seqs]_vars

\* C11, witness: an add_to_specific_cart for the caller's own checked_out cart
\* is about to answer 404.
C11_Witness ==
  \E r \in Req :
    /\ At(r, "addTo", "rollback")
    /\ req[r].outcome = 404
    /\ req[r].cart_id \in DOMAIN carts
    /\ carts[req[r].cart_id].user_id = req[r].user
    /\ carts[req[r].cart_id].status = "checked_out"

\* C12, as stated: an add call whose product id is not in the catalog is
\* answered with the not-found outcome (404), and its price lookup leaves the
\* tables as they were.
C12_UnknownProductNotFound ==
  [][\A r \in Req :
       (/\ IsAdd(r)
        /\ req[r].pc = "selectPrice"
        /\ req[r].product \notin DOMAIN price
        /\ req'[r].pc = "rollback") =>
         /\ req'[r].outcome = 404
         /\ db' = db]_vars

\* C12, what the handlers do: the same call is answered 500, the answer of a
\* storage error; no line is inserted and the cart created in the transaction
\* is not committed.
C12_UnknownProductIs500 ==
  [][\A r \in Req :
       (/\ IsAdd(r)
        /\ req[r].pc = "selectPrice"
        /\ req[r].product \notin DOMAIN price
        /\ req'[r] # req[r]) =>
         /\ req'[r].pc = "rollback"
         /\ req'[r].outcome = 500
         /\ db' = db
         /\ req[r].created => req[r].cart_id \notin DOMAIN carts]_vars

\* C13: an add call whose quantity is missing, is not a number (its characters
\* are not an optional sign, digits, and optionally a point and digits), or is
\* zero or negative, never gets past validation: no add handler is in its
\* transaction with such a quantity.
C13_BadQuantityRejected ==
  \A r \in Req :
    (IsAdd(r) /\ req[r].pc \in {"createCart", "selectPrice", "insertItem", "commit"}) =>
      LET q  == req[r].rawQuantity
          cs == q.chars
          neg == cs # << >> /\ Head(cs) = "-"
          body == IF neg THEN Tail(cs) ELSE cs
          AllDigits(ds) ==
            ds # << >> /\ \A i \in 1..Len(ds) : ds[i] \in DOMAIN DigitValue
          AllZero(ds) == \A i \in 1..Len(ds) : ds[i] \in {"0", "."}
          IsNumeral ==
            \/ AllDigits(body)
            \/ \E k \in 1..Len(body) :
                 /\ body[k] = "."
                 /\ AllDigits(SubSeq(body, 1, k - 1))
                 /\ AllDigits(SubSeq(body, k + 1, Len(body)))
      IN  /\ q # Undefined
          /\ IsNumeral
          /\ ~neg
          /\ ~AllZero(body)

\* C14: a checkout of an active cart that has no line is answered 404 'Active
\* cart not found' by the step that runs the locked read, whoever asks; it takes
\* no lock and inserts no Sale, its rollback changes no table, and as long as
\* the cart has no line it stays active and has no Sale.
C14_EmptyCartRejected ==
  [][\A c \in DOMAIN carts :
       (carts[c].status = "active" /\ LinesOf(c) = {}) =>
         /\ \A r \in Req :
              (/\ req[r].pc = "idle"
               /\ req'[r].op = "checkout"
               /\ req'[r].cart_id = c) =>
                /\ req'[r].pc = "rollback"
                /\ req'[r].outcome = 404
                /\ req'[r].sale_id = 0
                /\ req'[r].lock = 0
                /\ db' = db
         /\ \A r \in Req :
              (/\ At(r, "checkout", "rollback")
               /\ req[r].cart_id = c
               /\ req'[r] # req[r]) =>
                /\ req'[r] = Idle
                /\ db' = db
         /\ (\A i \in DOMAIN cart_items' : cart_items'[i].cart_id # c) =>
              /\ carts'[c].status = "active"
              /\ \A s \in DOMAIN sales' : sales'[s].cart_id # c]_vars

\* C14, witness: the owner's checkout of an active cart without a line is about
\* to answer 404.
C14_Witness ==
  \E r \in Req :
    /\ At(r, "checkout", "rollback")
    /\ req[r].outcome = 404
    /\ req[r].cart_id \in DOMAIN carts
    /\ carts[req[r].cart_id].user_id = req[r].user
    /\ carts[req[r].cart_id].status = "active"
    /\ LinesOf(req[r].cart_id) = {}

\* C15: a profile request and a sales-list request for a user other than the
\* session's user are answered 403 with no sale and no cart line.
C15_OthersProfileDenied ==
  \A u \in Users, param \in UserIdParams :
    (~parseInt(param).nan /\ parseInt(param).val # u) =>
      /\ ProfileResponses(param, u) = {[status |-> 403, sales |-> << >>, cart |-> {}]}
      /\ SalesResponse(param, u) = [status |-> 403, sales |-> << >>, cart |-> {}]

\* C15, witness: a user with a sale and a line in an active cart, who gets
\* both from the two handlers, and another user asking for them.
C15_Witness ==
  \E u, v \in Users, param \in UserIdParams :
    /\ parseInt(param) = Parsed(u)
    /\ v # u
    /\ SalesOfUser(u) # {}
    /\ ProfileCartRows(u) # {}
    /\ \A resp \in ProfileResponses(param, u) :
         resp.status = 200 /\ resp.cart = ProfileCartRows(u) /\ Len(resp.sales) = Cardinality(SalesOfUser(u))
    /\ Len(SalesResponse(param, u).sales) = Cardinality(SalesOfUser(u))
    /\ ProfileResponses(param, v) = {NoData(403)}

\* C16: every add that succeeds (its transaction commits, 201) inserts exactly
\* one new line, under an id that no line had, with the call's cart, product
\* and quantity; it merges into no line, every line that existed is unchanged,
\* and the cart has one line more.
C16_AddInsertsOneLine ==
  [][\A r \in Req :
       (IsAdd(r) /\ req[r].pc = "commit" /\ req'[r].outcome = 201) =>
         /\ req[r].item \notin DOMAIN cart_items
         /\ DOMAIN cart_items' = DOMAIN cart_items \cup {req[r].item}
         /\ \A i \in DOMAIN cart_items : cart_items'[i] = cart_items[i]
         /\ cart_items'[req[r].item].cart_id = req[r].cart_id
         /\ cart_items'[req[r].item].product_id = req[r].product
         /\ cart_items'[req[r].item].quantity = parseInt(req[r].rawQuantity).val
         /\ Cardinality({i \in DOMAIN cart_items' :
                           cart_items'[i].cart_id = req[r].cart_id})
              = Cardinality({i \in DOMAIN cart_items :
                               cart_items[i].cart_id = req[r].cart_id}) + 1]_vars

\* C16, witness: two adds of the same product to the same cart have succeeded,
\* and the cart holds two lines of that product.
C16_Witness ==
  \E i, j \in DOMAIN cart_items :
    /\ i # j
    /\ cart_items[i].cart_id = cart_items[j].cart_id
    /\ cart_items[i].product_id = cart_items[j].product_id
    /\ \E r \in Req : req[r].pc = "respond" /\ req[r].outcome = 201 /\ req[r].item = j

\* C17: no step changes or deletes a line or a Sale that exists, the commit
\* of a checkout included.
C17_LinesAndSalesImmutable ==
  [][/\ \A i \in DOMAIN cart_items :
          i \in DOMAIN cart_items' /\ cart_items'[i] = cart_items[i]
     /\ \A s \in DOMAIN sales :
          s \in DOMAIN sales' /\ sales'[s] = sales[s]]_vars

\* C17, witness: a cart with a line has been checked out, its line and its
\* Sale are there, and a later checkout has added a second Sale.
C17_Witness ==
  \E s, t \in DOMAIN sales :
    /\ s < t
    /\ carts[sales[s].cart_id].status = "checked_out"
    /\ \E i \in DOMAIN cart_items : cart_items[i].cart_id = sales[s].cart_id

\* C18: the profile lists the user's sales latest sale_date first, and two
\* sales with the same sale_date higher sale_id first.
C18_ProfileSalesOrder ==
  \A u \in Users : \A seq \in ProfileSaleOrders(u) :
    \A i, j \in DOMAIN seq :
      i < j => \/ sales[seq[i]].sale_date > sales[seq[j]].sale_date
               \/ /\ sales[seq[i]].sale_date = sales[seq[j]].sale_date
                  /\ seq[i] > seq[j]

\* C18, the part that holds: the profile lists the sales latest sale_date
\* first, and the sales list of GET /sales/:user_id has both orders.
C18_ProfileSalesByDate ==
  \A u \in Users :
    /\ \A seq \in ProfileSaleOrders(u) : \A i, j \in DOMAIN seq :
         i < j => sales[seq[i]].sale_date >= sales[seq[j]].sale_date
    /\ SalesListOrder(u) \in ProfileSaleOrders(u)
    /\ \A i, j \in DOMAIN SalesListOrder(u) :
         (i < j /\ sales[SalesListOrder(u)[i]].sale_date
                     = sales[SalesListOrder(u)[j]].sale_date)
           => SalesListOrder(u)[i] > SalesListOrder(u)[j]

\* C19: in any one state of the tables the profile of a user is one result:
\* two calls with no write between them return the same sales in the same
\* order and the same cart lines.
C19_ProfileRepeatable ==
  \A u \in Users, param \in UserIdParams :
    Cardinality(ProfileResponses(param, u)) = 1

\* C20 as stated: a checkout that waits for the cart's row lock ends with
\* 'Active cart not found' (or, when one of its own statements fails, with the
\* storage error).
C20_BlockedEndsNotActive ==
  \A r \in Req :
    (req[r].pc = "lockWait")
      ~> (req[r].pc = "rollback" /\ req[r].outcome \in {404, 500})

\* C20, amended: a checkout answers only after its COMMIT or ROLLBACK and
\* holds no lock from then on; only a checkout inside its transaction holds a
\* lock; every checkout answers; a checkout that waits for the lock gets it
\* when the holder's transaction has ended, and then it ends with 'Active cart
\* not found' if the holder committed the checkout, and goes on as a checkout
\* that did not wait if the holder rolled back.
C20_CheckoutEndsTransaction ==
  /\ [][\A r \in Req :
          /\ (req[r].op = "checkout" /\ req'[r].op # "checkout") =>
                /\ req[r].pc \in {"commit", "rollback"}
                /\ req'[r].lock = 0
          /\ (req[r].pc = "lockWait" /\ req'[r].pc # "lockWait") =>
                \/ req'[r].pc = "rollback" /\ req'[r].outcome = 500
                \/ /\ ~RowLockedByOther(r, req[r].cart_id)
                   /\ IF carts[req[r].cart_id].status = "checked_out"
                        THEN /\ req'[r].pc = "rollback"
                             /\ req'[r].outcome = 404
                             /\ req'[r].lock = 0
                        ELSE /\ req'[r].lock = req[r].cart_id
                             /\ req'[r].outcome \in {0, 403}
          /\ req'[r].lock # 0 =>
                /\ req'[r].op = "checkout"
                /\ req'[r].pc \in {"insertSale", "updateStatus", "commit",
                                    "rollback"}]_vars
  /\ \A r \in Req : (req[r].op = "checkout") ~> (req[r].op # "checkout")
  /\ \A r \in Req : (req[r].pc = "lockWait") ~> (req[r].pc # "lockWait")

\* C20, witness: a checkout of an own active cart has waited for the lock, the
\* holder has committed its Sale and answered, no lock is held, and the waiter
\* is about to answer 'Active cart not found'.
C20_Witness ==
  \E r \in Req :
    /\ At(r, "checkout", "rollback")
    /\ req[r].outcome = 404
    /\ req[r].ownActive
    /\ SalesOf(req[r].cart_id) # {}
    /\ \A q \in Req : req[q].lock = 0
    /\ \A q \in Req \ {r} : req[q].pc = "idle"

\* C22: a checkout by a user who does not own the cart is answered as a
\* checkout of a cart id that does not exist is answered: 404 'Active cart not
\* found.'
C22_ForeignCheckoutLooksMissing ==
  \A r \in Req :
    (/\ At(r, "checkout", "rollback")
     /\ req[r].cart_id \in DOMAIN carts
     /\ carts[req[r].cart_id].user_id # req[r].user)
      => req[r].outcome = 404

\* C22, the other half of the comparison: a checkout of a cart id that no
\* cart has is answered 404.
C22_MissingCartIs404 ==
  \A r \in Req :
    (At(r, "checkout", "rollback") /\ req[r].cart_id \notin DOMAIN carts)
      => req[r].outcome = 404

\* C27: the sales list of a profile has one entry for each Sale of the user
\* and no other entry; it is empty for a user without a Sale.
C27_ProfileSalesAreTheSales ==
  \A u \in Users, param \in UserIdParams :
    parseInt(param) = Parsed(u) =>
      \A resp \in ProfileResponses(param, u) :
        /\ Len(resp.sales) = Cardinality(SalesOfUser(u))
        /\ \A s \in SalesOfUser(u) :
             \E i \in DOMAIN resp.sales :
               /\ resp.sales[i].sale_date = sales[s].sale_date
               /\ resp.sales[i].total_price = sales[s].total_price

\* C27, the part that holds: a user with a Sale gets one entry for each Sale,
\* and the cart lines are in the cart list.
C27_EntriesOfUserWithSale ==
  \A u \in Users, param \in UserIdParams :
    (parseInt(param) = Parsed(u) /\ SalesOfUser(u) # {}) =>
      \A resp \in ProfileResponses(param, u) :
        /\ Len(resp.sales) = Cardinality(SalesOfUser(u))
        /\ resp.cart = ProfileCartRows(u)

\* C21: a request that arrives while the server can take one is served at
\* once, whatever requests are in flight or have ended: it does not wait for
\* a client of the pool.
C21_ServedWithoutWaiting ==
  \A r \in Req : req[r].pc = "idle" => ClientFree

\* C24: when no request is in flight, no client of the pool is in use.
C24_ClientsReturned ==
  (\A r \in Req : req[r].pc = "idle") => ClientsInUse = 0

\* C24, the part that holds: the clients in use with no request in flight
\* are those of the checkouts that have ended, at most one for each attempt;
\* add_to_cart, add_to_specific_cart, get_cart and the sales list leave none.
C24_OnlyCheckoutKeepsClient ==
  [][\/ unreleased' = unreleased
     \/ /\ unreleased' = unreleased + 1
        /\ \E r \in Req : req[r].op = "checkout" /\ req'[r].pc = "idle"]_vars

\* C25: an add call that answers an error has stored no line.
C25_ErrorMeansNoLine ==
  \A r \in Req :
    (IsAdd(r) /\ req[r].pc = "rollback") => req[r].item \notin DOMAIN cart_items

\* C25, the part that holds: an add call that answers 201 has stored its
\* line, and a call that fails before its COMMIT has stored none.
C25_SuccessMeansLine ==
  /\ \A r \in Req :
       (IsAdd(r) /\ req[r].pc = "respond") => req[r].item \in DOMAIN cart_items
  /\ [][\A r \in Req :
          (IsAdd(r) /\ req[r].pc \in {"createCart", "selectPrice", "insertItem",
                                       "commit"}
                   /\ req'[r].pc = "rollback")
            => /\ req'[r].item \notin DOMAIN cart_items'
               /\ cart_items' = cart_items]_vars

\* C26: every cart of the committed state has a line.
C26_NoCartWithoutLine ==
  \A c \in DOMAIN carts : LinesOf(c) # {}

\* C26, witness: an add that had created a cart failed and was rolled back
\* (the cart id it drew belongs to no cart), nothing is in flight, and there is
\* a cart.
C26_Witness ==
  /\ \E c \in 1..(cartSeq - 1) : c \notin DOMAIN carts
  /\ \A r \in Req : req[r].pc = "idle"
  /\ DOMAIN carts # {}

====
